---- MODULE Spec2Model ----
(***************************************************************************)
(* Integration adapter and composition layer of the agent (package v2):   *)
(*   - the run function newIntegrationFromV1 installs around a legacy     *)
(*     integration's Run (error masking),                                  *)
(*   - configWrapper (ApplyDefaults, Identifier, NewIntegration),          *)
(*   - Integrations.ActiveConfigs (the composition registry).              *)
(* Three specifications share the variables: SpecRun drives one Run call   *)
(* after another, SpecWrap drives one configWrapper, SpecReg drives        *)
(* ActiveConfigs over a registry.                                          *)
(***************************************************************************)
EXTENDS Integers, Sequences, FiniteSets, TLC

VARIABLES
    \* ---- one Run call of a metricsHandlerIntegration built from a v1 integration
    ctx,        \* state of the context passed to Run
    pc,         \* position of the Run call: "idle", "running", "done"
    legacy,     \* which legacy integration is wrapped: "generic" or "stub"
    legacyErr,  \* what v1Integration.Run returned (an error chain, <<>> is nil)
    runRet,     \* what runFunc returned
    ctxAtRet,   \* state of the context when v1Integration.Run returned and runFunc
                \* read ctx.Err() (the read directly follows the return)
    runCalls,   \* Run calls started so far
    legacyCalls,\* v1Integration.Run calls started so far
    \* ---- one configWrapper
    w,          \* the wrapper: cfg name, cmn (instance key, autoscrape), identifier function
    last,       \* record of the last call on the wrapper
    prev,       \* summary of the call before it
    \* ---- the registry
    reg,        \* the Integrations struct: slot -> sequence of declared entries
    active,     \* results of the ActiveConfigs calls made so far, oldest first
    \* ---- one configuration load
    doc,        \* the sections of the document being decoded, in document order
    load        \* progress of the load: sections handled so far and the outcome

vars == <<ctx, pc, legacy, legacyErr, runRet, ctxAtRet, runCalls, legacyCalls,
          w, last, prev, reg, active, doc, load>>

runVars  == <<ctx, pc, legacy, legacyErr, runRet, ctxAtRet, runCalls, legacyCalls>>
wrapVars == <<w, last, prev>>
regVars  == <<reg, active>>
loadVars == <<doc, load>>

None == "none"

(***************************************************************************)
(* Errors.  An error value is the chain errors.Is walks: the error itself  *)
(* followed by what it wraps (Unwrap); the empty chain is nil.             *)
(***************************************************************************)
MaxChain == 2

ErrNil == <<>>
Canceled == "context.Canceled"
DeadlineExceeded == "context.DeadlineExceeded"
ErrOther == "other"

ErrAtoms == {Canceled, DeadlineExceeded, ErrOther}

ErrChains == UNION {[1..n -> ErrAtoms] : n \in 0..MaxChain}

RECURSIVE ErrorsIs(_, _)
ErrorsIs(err, target) ==
    IF err = ErrNil THEN FALSE
    ELSE IF Head(err) = target THEN TRUE
    ELSE ErrorsIs(Tail(err), target)

\* ctx.Err(): nil while the context is active, then the reason it ended.
CtxErr(c) ==
    CASE c = "active"   -> ErrNil
      [] c = "canceled" -> <<Canceled>>
      [] c = "expired"  -> <<DeadlineExceeded>>

CtxStates == {"active", "canceled", "expired"}

(***************************************************************************)
(* runFunc: the switch applied to the legacy Run's outcome.                *)
(***************************************************************************)
RunFuncNoCtx(err, c) ==
    IF err = ErrNil THEN ErrNil
    ELSE IF ErrorsIs(err, Canceled) THEN ErrNil
    ELSE err
RunFuncNoMask(err, c) == err
RunFuncMasksCtxErr(err, c) ==
    IF err = ErrNil THEN ErrNil
    ELSE IF CtxErr(c) # ErrNil /\ ErrorsIs(err, Head(CtxErr(c))) THEN ErrNil
    ELSE err
RunFuncResult(err, c) ==
    IF err = ErrNil THEN ErrNil
    ELSE IF ErrorsIs(err, Canceled) /\ CtxErr(c) # ErrNil THEN ErrNil
    ELSE err

MaxRuns == 2

\* The supervisor calls Run(ctx): runFunc calls v1Integration.Run(ctx) and blocks in it.
StartRun ==
    /\ pc \in {"idle", "done"}
    /\ runCalls < MaxRuns
    /\ pc' = "running"
    /\ runCalls' = runCalls + 1
    /\ legacyCalls' = legacyCalls + 1
    /\ legacyErr' = ErrNil
    /\ runRet' = ErrNil
    /\ ctxAtRet' = None
    /\ UNCHANGED <<ctx, legacy, wrapVars, regVars, loadVars>>

\* The owner of the context cancels it.
CancelCtx ==
    /\ ctx = "active"
    /\ ctx' = "canceled"
    /\ UNCHANGED <<pc, legacy, legacyErr, runRet, ctxAtRet, runCalls, legacyCalls,
                   wrapVars, regVars, loadVars>>

\* The context's deadline passes.
DeadlineExpires ==
    /\ ctx = "active"
    /\ ctx' = "expired"
    /\ UNCHANGED <<pc, legacy, legacyErr, runRet, ctxAtRet, runCalls, legacyCalls,
                   wrapVars, regVars, loadVars>>

\* The supervisor makes a fresh context for the next Run call.
NewContext ==
    /\ pc = "done"
    /\ ctx # "active"
    /\ runCalls < MaxRuns
    /\ ctx' = "active"
    /\ pc' = "idle"
    /\ UNCHANGED <<legacy, legacyErr, runRet, ctxAtRet, runCalls, legacyCalls,
                   wrapVars, regVars, loadVars>>

\* An arbitrary legacy integration's Run returns err; runFunc's switch decides.
GenericRunReturns ==
    /\ pc = "running"
    /\ legacy = "generic"
    /\ \E err \in ErrChains :
        /\ legacyErr' = err
        /\ runRet' = RunFuncResult(err, ctx)
    /\ ctxAtRet' = ctx
    /\ pc' = "done"
    /\ UNCHANGED <<ctx, legacy, runCalls, legacyCalls, wrapVars, regVars, loadVars>>

\* The non-Windows windows_exporter stub: <-ctx.Done(); return ctx.Err().
StubRunResult(c) == CtxErr(c)
StubRunReturnsWithoutWaiting ==
    /\ pc = "running"
    /\ legacy = "stub"
    /\ legacyErr' = StubRunResult(ctx)
    /\ runRet' = RunFuncResult(StubRunResult(ctx), ctx)
    /\ ctxAtRet' = ctx
    /\ pc' = "done"
    /\ UNCHANGED <<ctx, legacy, runCalls, legacyCalls, wrapVars, regVars, loadVars>>
StubRunReturns ==
    /\ pc = "running"
    /\ legacy = "stub"
    /\ ctx # "active"
    /\ legacyErr' = StubRunResult(ctx)
    /\ runRet' = RunFuncResult(StubRunResult(ctx), ctx)
    /\ ctxAtRet' = ctx
    /\ pc' = "done"
    /\ UNCHANGED <<ctx, legacy, runCalls, legacyCalls, wrapVars, regVars, loadVars>>

IdleWrapper == [name |-> None, key |-> None, enable |-> None, ci |-> None]
IdleCall == [op |-> None]
IdleLoad == [pc |-> "idle", done |-> <<>>, err |-> ErrNil, defaulted |-> FALSE]

InitRun ==
    /\ ctx \in CtxStates
    /\ pc = "idle"
    /\ legacy \in {"generic", "stub"}
    /\ legacyErr = ErrNil
    /\ runRet = ErrNil
    /\ ctxAtRet = None
    /\ runCalls = 0
    /\ legacyCalls = 0
    /\ doc = <<>>
    /\ load = IdleLoad
    /\ w = IdleWrapper
    /\ last = IdleCall
    /\ prev = IdleCall
    /\ reg = <<>>
    /\ active = <<>>

NextRun ==
    \/ StartRun
    \/ CancelCtx
    \/ DeadlineExpires
    \/ NewContext
    \/ GenericRunReturns
    \/ StubRunReturns

SpecRun == InitRun /\ [][NextRun]_vars

\* A goroutine blocked in <-ctx.Done() is woken once the channel is closed: the stub's
\* return cannot stay enabled forever without happening.
SpecRunFair == InitRun /\ [][NextRun]_vars /\ WF_vars(StubRunReturns)

(***************************************************************************)
(* C1: when the legacy Run returns an error that is or wraps               *)
(* "operation canceled" and the context is canceled or expired at that     *)
(* moment, Run returns nil.                                                *)
(***************************************************************************)
C1_MaskedCase ==
    (pc = "done" /\ ErrorsIs(legacyErr, Canceled) /\ ctxAtRet \in {"canceled", "expired"})
        => runRet = ErrNil

C1_Witness ==
    /\ pc = "done"
    /\ legacy = "generic"
    /\ legacyErr = <<ErrOther, Canceled>>
    /\ ctxAtRet = "expired"
    /\ runRet = ErrNil

(***************************************************************************)
(* C2: in every other case Run returns exactly the legacy Run's outcome:   *)
(* nil stays nil, a cancellation error under an active context and any     *)
(* non-cancellation error (deadline-exceeded included) come back unchanged.*)
(***************************************************************************)
C2_NonMaskedCases ==
    (pc = "done" /\ ~(ErrorsIs(legacyErr, Canceled) /\ ctxAtRet \in {"canceled", "expired"}))
        => runRet = legacyErr

C2_Witness ==
    /\ pc = "done"
    /\ legacyErr = <<Canceled>>
    /\ ctxAtRet = "active"
    /\ runRet = <<Canceled>>

(***************************************************************************)
(* configWrapper.  A wrapper holds the legacy config (its Name()), its own *)
(* copy of the common settings (cmn: the optional instance key and the     *)
(* optional autoscrape switch) and the per-kind identifier function.       *)
(***************************************************************************)
AgentIds == {"agent-1", "agent-2"}

\* shared.Globals: the agent-wide identifier and the global autoscrape default.
GlobalsSet == [AgentIdentifier : AgentIds, Autoscrape : {"on", "off"}]

ExplicitKeys == {"k1"}

\* Behaviours of the per-kind identifier function (configInstance) of a legacy config:
\* echo the agent key, derive the key from the config's own address, fail always,
\* or fail for one agent identifier only.
CiModes == {"agentKey", "addr1", "addr2", "fail", "failAgent1"}

ErrIdentity == "identity"

configInstanceFunc(ci, agentKey) ==
    CASE ci = "agentKey"   -> [id |-> agentKey, err |-> ErrNil]
      [] ci = "addr1"      -> [id |-> "addr1", err |-> ErrNil]
      [] ci = "addr2"      -> [id |-> "addr2", err |-> ErrNil]
      [] ci = "fail"       -> [id |-> "", err |-> <<ErrIdentity>>]
      [] ci = "failAgent1" -> IF agentKey = "agent-1"
                              THEN [id |-> "", err |-> <<ErrIdentity>>]
                              ELSE [id |-> "addr1", err |-> ErrNil]

\* common.MetricsConfig.ApplyDefaults: a global default fills a setting the user left unset.
CmnApplyDefaults(c, autoscrape) ==
    IF c.enable = None THEN [c EXCEPT !.enable = autoscrape] ELSE c

\* configWrapper.Identifier; calls counts the invocations of the per-kind function.
IdentifierSwallows(c, globals) ==
    IF c.key # None
    THEN [id |-> c.key, err |-> ErrNil, calls |-> 0]
    ELSE LET r == configInstanceFunc(c.ci, globals.AgentIdentifier)
         IN  [id |-> r.id, err |-> ErrNil, calls |-> 1]
Identifier(c, globals) ==
    IF c.key # None
    THEN [id |-> c.key, err |-> ErrNil, calls |-> 0]
    ELSE LET r == configInstanceFunc(c.ci, globals.AgentIdentifier)
         IN  [id |-> r.id, err |-> r.err, calls |-> 1]

\* configWrapper.ApplyDefaults: the wrapper afterwards (the call itself returns nil).
ApplyDefaultsOverwrites(c, globals) ==
    LET c1 == CmnApplyDefaults(c, globals.Autoscrape)
        r  == configInstanceFunc(c1.ci, globals.AgentIdentifier)
    IN  IF r.err = ErrNil THEN [c1 EXCEPT !.key = r.id] ELSE c1
ApplyDefaultsStoresFailure(c, globals) ==
    LET c1 == CmnApplyDefaults(c, globals.Autoscrape)
        r  == Identifier(c1, globals)
    IN  [c1 EXCEPT !.key = r.id]
ApplyDefaultsPrefixes(c, globals) ==
    LET c1 == CmnApplyDefaults(c, globals.Autoscrape)
        r  == Identifier(c1, globals)
    IN  IF r.err = ErrNil THEN [c1 EXCEPT !.key = "integrations/" \o r.id] ELSE c1
ApplyDefaults(c, globals) ==
    LET c1 == CmnApplyDefaults(c, globals.Autoscrape)
        r  == Identifier(c1, globals)
    IN  IF r.err = ErrNil THEN [c1 EXCEPT !.key = r.id] ELSE c1

\* configWrapper.Name and configWrapper.Common
Name(c) == c.name
Common(c) == [InstanceKey |-> c.key, Enable |-> c.enable]

(***************************************************************************)
(* newIntegrationFromV1.  v1 is what the legacy side does in this call:    *)
(* the constructor's error, MetricsHandler's result and ScrapeConfigs().   *)
(***************************************************************************)
MaxSC == 2

JobPrefix == "integrations/"
NotFoundHandler == "http.NotFoundHandler"
ErrGeneratingHandler == "generating http handler"

KindNames == {"cadvisor", "redis_exporter"}

ScrapeCfgs == { [JobName |-> "cadvisor", MetricsPath |-> "/metrics"],
                [JobName |-> "custom", MetricsPath |-> "/probe"] }

\* A Go slice: nil, or a (possibly empty) sequence of elements.
NilSlice == [nil |-> TRUE, elems |-> <<>>]
Slice(s) == [nil |-> FALSE, elems |-> s]

\* What ScrapeConfigs() may return.
ScrapeCfgLists ==
    {NilSlice} \cup {Slice(s) : s \in UNION {[1..n -> ScrapeCfgs] : n \in 0..MaxSC}}

V1Outcomes ==
    {[ctorErr |-> <<ErrOther>>, handler |-> None, handlerErr |-> ErrNil, scs |-> NilSlice]}
    \cup {[ctorErr |-> ErrNil, handler |-> None, handlerErr |-> <<ErrOther>>,
           scs |-> NilSlice]}
    \cup [ctorErr : {ErrNil}, handler : {None, "legacyHandler"}, handlerErr : {ErrNil},
          scs : ScrapeCfgLists]

\* One handlerTarget of the loop over v1ScrapeConfigs.
TargetOfKindName(c, sc) ==
    [MetricsPath |-> sc.MetricsPath, Job |-> JobPrefix \o Name(c)]
TargetOf(c, sc) ==
    [MetricsPath |-> sc.MetricsPath, Job |-> JobPrefix \o sc.JobName]

\* targets := make([]handlerTarget, 0, len(v1ScrapeConfigs)), then one append per element.
TargetsDropLast(c, scs) ==
    Slice([i \in 1..(IF Len(scs.elems) = 0 THEN 0 ELSE Len(scs.elems) - 1) |->
              TargetOf(c, scs.elems[i])])
TargetsNilWhenEmpty(c, scs) ==
    IF Len(scs.elems) = 0 THEN NilSlice
    ELSE Slice([i \in 1..Len(scs.elems) |-> TargetOf(c, scs.elems[i])])
Targets(c, scs) == Slice([i \in 1..Len(scs.elems) |-> TargetOf(c, scs.elems[i])])

\* The default handler substituted for a nil one.
HandlerKeepNil(h) == h
HandlerOrNotFound(h) == IF h = None THEN NotFoundHandler ELSE h

\* The result pair (integration, error); integ is <<>> for a nil integration and
\* <<i>> for the integration i.
newIntegrationFromV1(c, globals, v1) ==
    IF v1.ctorErr # ErrNil
    THEN [integ |-> <<>>, err |-> v1.ctorErr, calls |-> 0]
    ELSE LET r == Identifier(c, globals) IN
         IF r.err # ErrNil
         THEN [integ |-> <<>>, err |-> r.err, calls |-> r.calls]
         ELSE IF v1.handlerErr # ErrNil
         THEN [integ |-> <<>>, err |-> <<ErrGeneratingHandler>> \o v1.handlerErr,
               calls |-> r.calls]
         ELSE [integ |-> << [integrationName |-> Name(c),
                             instanceID      |-> r.id,
                             common          |-> Common(c),
                             globals         |-> globals,
                             handler         |-> HandlerOrNotFound(v1.handler),
                             targets         |-> Targets(c, v1.scs),
                             runFunc         |-> "runFunc"] >>,
               err |-> ErrNil, calls |-> r.calls]

\* Summary of a call, kept while the next call runs.
Summary(l) ==
    IF l.op = "ApplyDefaults"
    THEN [op |-> l.op, g |-> l.g, keyAfter |-> l.keyAfter, idAfter |-> l.idAfter]
    ELSE [op |-> l.op]

\* c.ApplyDefaults(globals)
CallApplyDefaults ==
    \E g \in GlobalsSet :
        LET c2 == ApplyDefaults(w, g) IN
        /\ w' = c2
        /\ last' = [op |-> "ApplyDefaults", g |-> g, before |-> w, ret |-> ErrNil,
                    keyAfter |-> c2.key,
                    idAfter |-> [x \in {"id", "err"} |-> Identifier(c2, g)[x]]]
        /\ prev' = Summary(last)
        /\ UNCHANGED <<runVars, regVars, loadVars>>

\* c.Identifier(globals)
CallIdentifier ==
    \E g \in GlobalsSet :
        /\ last' = [op |-> "Identifier", g |-> g, before |-> w, ret |-> Identifier(w, g)]
        /\ prev' = Summary(last)
        /\ UNCHANGED <<w, runVars, regVars, loadVars>>

\* c.NewIntegration(logger, globals)
CallNewIntegration ==
    \E g \in GlobalsSet, v1 \in V1Outcomes :
        /\ last' = [op |-> "NewIntegration", g |-> g, before |-> w, v1 |-> v1,
                    ret |-> newIntegrationFromV1(w, g, v1)]
        /\ prev' = Summary(last)
        /\ UNCHANGED <<w, runVars, regVars, loadVars>>

InitWrap ==
    /\ w \in [name : KindNames, key : {None} \cup ExplicitKeys, enable : {None, "on", "off"},
              ci : CiModes \ {"addr2"}]
    /\ last = IdleCall
    /\ prev = IdleCall
    /\ ctx = "active"
    /\ pc = "idle"
    /\ legacy = "generic"
    /\ legacyErr = ErrNil
    /\ runRet = ErrNil
    /\ ctxAtRet = None
    /\ runCalls = 0
    /\ legacyCalls = 0
    /\ doc = <<>>
    /\ load = IdleLoad
    /\ reg = <<>>
    /\ active = <<>>

NextWrap ==
    \/ CallApplyDefaults
    \/ CallIdentifier
    \/ CallNewIntegration

SpecWrap == InitWrap /\ [][NextWrap]_vars

(***************************************************************************)
(* The registry: the Integrations struct.  A slot holds the sequence of    *)
(* its declared entries; a singular slot (a pointer field) holds at most   *)
(* one, the empty sequence being the nil pointer.                          *)
(***************************************************************************)
\* The fields of Integrations, in the order ActiveConfigs reads them.
Fields == << "Agent", "Cadvisor", "ConsulExporterConfigs", "DnsmasqExporterConfigs",
             "ElasticsearchExporterConfigs", "GithubExporterConfigs",
             "KafkaExporterConfigs", "MemcachedExporterConfigs",
             "MongodbExporterConfigs", "MysqldExporterConfigs", "NodeExporter",
             "PostgresExporterConfigs", "ProcessExporter", "RedisExporterConfigs",
             "StatsdExporter", "WindowsExporter", "TestConfigs" >>

FieldSet == {Fields[i] : i \in 1..Len(Fields)}

\* The pointer fields.
SingularFields == {"Agent", "Cadvisor", "NodeExporter", "ProcessExporter",
                   "StatsdExporter", "WindowsExporter"}

\* Name() of the config a field holds.
KindName(f) ==
    CASE f = "Agent"                        -> "agent"
      [] f = "Cadvisor"                     -> "cadvisor"
      [] f = "ConsulExporterConfigs"        -> "consul_exporter"
      [] f = "DnsmasqExporterConfigs"       -> "dnsmasq_exporter"
      [] f = "ElasticsearchExporterConfigs" -> "elasticsearch_exporter"
      [] f = "GithubExporterConfigs"        -> "github_exporter"
      [] f = "KafkaExporterConfigs"         -> "kafka_exporter"
      [] f = "MemcachedExporterConfigs"     -> "memcached_exporter"
      [] f = "MongodbExporterConfigs"       -> "mongodb_exporter"
      [] f = "MysqldExporterConfigs"        -> "mysqld_exporter"
      [] f = "NodeExporter"                 -> "node_exporter"
      [] f = "PostgresExporterConfigs"      -> "postgres_exporter"
      [] f = "ProcessExporter"              -> "process_exporter"
      [] f = "RedisExporterConfigs"         -> "redis_exporter"
      [] f = "StatsdExporter"               -> "statsd_exporter"
      [] f = "WindowsExporter"              -> "windows_exporter"
      [] f = "TestConfigs"                  -> "test"

\* newConfigWrapper(cfg, cmn, ni, ci): cfg points at the declared entry, cmn is a copy
\* of its common settings.
newConfigWrapperDropsKey(ref, e) ==
    [wrapped |-> TRUE, cfg |-> ref, name |-> e.name, key |-> None, enable |-> e.enable,
     ci |-> e.ci]
newConfigWrapper(ref, e) ==
    [wrapped |-> TRUE, cfg |-> ref, name |-> e.name, key |-> e.key, enable |-> e.enable,
     ci |-> e.ci]

\* A Config appended as it is (v.Agent, the elements of v.TestConfigs).
Unwrapped(ref, e) ==
    [wrapped |-> FALSE, cfg |-> ref, name |-> e.name, key |-> e.key, enable |-> e.enable,
     ci |-> e.ci]

\* if v.F != nil { activeConfigs = append(activeConfigs, newConfigWrapper(v.F, ...)) }
AppendSingular(acc, v, f) ==
    IF v[f] # <<>> THEN Append(acc, newConfigWrapper(<<f, 1>>, v[f][1])) ELSE acc

\* for _, i := range v.F { activeConfigs = append(activeConfigs, newConfigWrapper(i, ...)) }
AppendRepeatedReversed(acc, v, f) ==
    acc \o [i \in 1..Len(v[f]) |->
               newConfigWrapper(<<f, Len(v[f]) + 1 - i>>, v[f][Len(v[f]) + 1 - i])]
AppendRepeated(acc, v, f) ==
    acc \o [i \in 1..Len(v[f]) |-> newConfigWrapper(<<f, i>>, v[f][i])]

\* Integrations.ActiveConfigs
ActiveConfigs(v) ==
    LET a0  == <<>>
        a1  == IF v["Agent"] # <<>>
               THEN Append(a0, Unwrapped(<<"Agent", 1>>, v["Agent"][1])) ELSE a0
        a2  == AppendSingular(a1, v, "Cadvisor")
        a3  == AppendRepeated(a2, v, "ConsulExporterConfigs")
        a4  == AppendRepeated(a3, v, "DnsmasqExporterConfigs")
        a5  == AppendRepeated(a4, v, "ElasticsearchExporterConfigs")
        a6  == AppendRepeated(a5, v, "GithubExporterConfigs")
        a7  == AppendRepeated(a6, v, "KafkaExporterConfigs")
        a8  == AppendRepeated(a7, v, "MemcachedExporterConfigs")
        a9  == AppendRepeated(a8, v, "MongodbExporterConfigs")
        a10 == AppendRepeated(a9, v, "MysqldExporterConfigs")
        a11 == AppendSingular(a10, v, "NodeExporter")
        a12 == AppendRepeated(a11, v, "PostgresExporterConfigs")
        a13 == AppendSingular(a12, v, "ProcessExporter")
        a14 == AppendRepeated(a13, v, "RedisExporterConfigs")
        a15 == AppendSingular(a14, v, "StatsdExporter")
        a16 == AppendSingular(a15, v, "WindowsExporter")
        a17 == a16 \o [i \in 1..Len(v["TestConfigs"]) |->
                          Unwrapped(<<"TestConfigs", i>>, v["TestConfigs"][i])]
    IN  a17

MaxEntries == 3
MaxCalls == 2

\* What an entry's common settings and identifier function may be.
EntryShapes == { [key |-> None, ci |-> "addr1"], [key |-> "k1", ci |-> "agentKey"] }

\* The declared entries, in declaration order: place[i] is the field (by its position in
\* Fields) of the i-th one.
Placements(n) ==
    { pl \in [1..n -> 1..Len(Fields)] :
        /\ \A i \in 1..n : \A j \in 1..n : i < j => pl[i] <= pl[j]
        /\ \A i \in 1..n : \A j \in 1..n :
              (i < j /\ pl[i] = pl[j]) => Fields[pl[i]] \notin SingularFields }

RECURSIVE EntriesOf(_, _, _, _)
EntriesOf(pl, sh, k, i) ==
    IF i > Len(pl) THEN <<>>
    ELSE IF pl[i] = k
         THEN <<[name |-> KindName(Fields[k]), key |-> sh[i].key, enable |-> None,
                 ci |-> sh[i].ci]>> \o EntriesOf(pl, sh, k, i + 1)
         ELSE EntriesOf(pl, sh, k, i + 1)

Registry(pl, sh) ==
    [f \in FieldSet |->
        LET k == CHOOSE x \in 1..Len(Fields) : Fields[x] = f
        IN  EntriesOf(pl, sh, k, 1)]

\* v.ActiveConfigs()
CallActiveConfigs ==
    /\ Len(active) < MaxCalls
    /\ active' = Append(active, ActiveConfigs(reg))
    /\ UNCHANGED <<reg, runVars, wrapVars, loadVars>>

InitReg ==
    /\ \E n \in 0..MaxEntries : \E pl \in Placements(n) : \E sh \in [1..n -> EntryShapes] :
          reg = Registry(pl, sh)
    /\ active = <<>>
    /\ w = IdleWrapper
    /\ last = IdleCall
    /\ prev = IdleCall
    /\ ctx = "active"
    /\ pc = "idle"
    /\ legacy = "generic"
    /\ legacyErr = ErrNil
    /\ runRet = ErrNil
    /\ ctxAtRet = None
    /\ runCalls = 0
    /\ legacyCalls = 0
    /\ doc = <<>>
    /\ load = IdleLoad

NextReg == CallActiveConfigs

SpecReg == InitReg /\ [][NextReg]_vars

(***************************************************************************)
(* Ownership of wrappers.  Each v.ActiveConfigs() call hands its list to   *)
(* one task; the task calls ApplyDefaults on the wrappers of its list.     *)
(* newConfigWrapper receives the slot's common settings by value, so the   *)
(* wrapper's cmn is a copy: ApplyDefaults assigns into that copy only.     *)
(***************************************************************************)
MaxOwnEntries == 2

OwnFields == {"Cadvisor", "RedisExporterConfigs"}

OwnPlacements(n) ==
    { pl \in Placements(n) : \A i \in 1..n : Fields[pl[i]] \in OwnFields }

\* The globals the tasks of one agent pass: the agent identifier varies, the autoscrape
\* default is the one the agent was started with.
OwnGlobals == { g \in GlobalsSet : g.Autoscrape = "on" }

\* c.ApplyDefaults(globals) on the k-th wrapper of the list returned by the c-th call.
OwnerApplyDefaultsOnSlot ==
    \E c \in 1..Len(active) : \E k \in 1..Len(active[c]) : \E g \in OwnGlobals :
        LET c2 == ApplyDefaults(active[c][k], g)
            f  == active[c][k].cfg[1]
            i  == active[c][k].cfg[2]
        IN  /\ active[c][k].wrapped
            /\ active' = [active EXCEPT ![c][k] = c2]
            /\ reg' = [reg EXCEPT ![f][i].key = c2.key, ![f][i].enable = c2.enable]
            /\ UNCHANGED <<runVars, wrapVars, loadVars>>
OwnerApplyDefaults ==
    \E c \in 1..Len(active) : \E k \in 1..Len(active[c]) : \E g \in OwnGlobals :
        /\ active[c][k].wrapped
        /\ active' = [active EXCEPT ![c][k] = ApplyDefaults(active[c][k], g)]
        /\ UNCHANGED <<reg, runVars, wrapVars, loadVars>>

InitOwn ==
    /\ \E n \in 0..MaxOwnEntries : \E pl \in OwnPlacements(n) :
          \E sh \in [1..n -> EntryShapes] : reg = Registry(pl, sh)
    /\ active = <<>>
    /\ w = IdleWrapper
    /\ last = IdleCall
    /\ prev = IdleCall
    /\ ctx = "active"
    /\ pc = "idle"
    /\ legacy = "generic"
    /\ legacyErr = ErrNil
    /\ runRet = ErrNil
    /\ ctxAtRet = None
    /\ runCalls = 0
    /\ legacyCalls = 0
    /\ doc = <<>>
    /\ load = IdleLoad

NextOwn ==
    \/ CallActiveConfigs
    \/ OwnerApplyDefaults

SpecOwn == InitOwn /\ [][NextOwn]_vars

(***************************************************************************)
(* Configuration load.  Every wrapper type's UnmarshalYAML sets the kind's *)
(* default config (where it has one), asks implementsMarshaller whether    *)
(* the legacy config may be wrapped, and only then runs the decode step    *)
(* (the unmarshal callback on the plain struct).  A section of the         *)
(* document names the field it fills and how that field's legacy config    *)
(* type declares UnmarshalYAML: not at all, with a value receiver or with  *)
(* a pointer receiver.                                                     *)
(***************************************************************************)
MaxDoc == 2

UnmarshalerDecls == {"none", "value", "pointer"}

\* The fields a document can fill (TestConfigs is tagged yaml:"-").
DocFields == FieldSet \ {"TestConfigs"}

\* The wrapper types whose UnmarshalYAML starts with c.Config = <kind>.DefaultConfig.
DefaultingFields == DocFields \ {"Agent", "MongodbExporterConfigs", "PostgresExporterConfigs"}

ErrCustomUnmarshaler == "cannot implement custom unmarshaler"

\* implementsMarshaller(c.Config): the argument is the legacy config VALUE, so the type
\* assertion i.(yaml.Unmarshaler) succeeds only if UnmarshalYAML is in the method set of
\* the value type, that is, declared with a value receiver.
implementsMarshaller(f, decl) ==
    IF decl = "value" THEN <<ErrCustomUnmarshaler, KindName(f)>> ELSE ErrNil

\* (c *Cadvisor).UnmarshalYAML and its fifteen siblings; decodeErr is what the decode
\* step returns if it is invoked.
UnmarshalYAML(sec, decodeErr) ==
    LET err == implementsMarshaller(sec.field, sec.decl) IN
    IF err # ErrNil
    THEN [field |-> sec.field, decl |-> sec.decl,
          defaultSet |-> sec.field \in DefaultingFields,
          guardErr |-> err, decoded |-> FALSE, err |-> err]
    ELSE [field |-> sec.field, decl |-> sec.decl,
          defaultSet |-> sec.field \in DefaultingFields,
          guardErr |-> ErrNil, decoded |-> TRUE, err |-> decodeErr]

\* The loader starts on the document.
StartLoad ==
    /\ load.pc = "idle"
    /\ load' = [load EXCEPT !.pc = "loading"]
    /\ UNCHANGED <<doc, runVars, wrapVars, regVars>>

\* The decoder reaches the next section and calls its wrapper's UnmarshalYAML; the first
\* error ends the load.
DecodeSection ==
    /\ load.pc = "loading"
    /\ Len(load.done) < Len(doc)
    /\ \E decodeErr \in {ErrNil, <<ErrOther>>} :
          LET r == UnmarshalYAML(doc[Len(load.done) + 1], decodeErr) IN
          load' = [load EXCEPT !.done = Append(@, r),
                               !.err = r.err,
                               !.pc = IF r.err # ErrNil THEN "failed" ELSE @]
    /\ UNCHANGED <<doc, runVars, wrapVars, regVars>>

\* Every section decoded: the load succeeds.
FinishLoad ==
    /\ load.pc = "loading"
    /\ Len(load.done) = Len(doc)
    /\ load' = [load EXCEPT !.pc = "loaded"]
    /\ UNCHANGED <<doc, runVars, wrapVars, regVars>>

\* Defaulting (ApplyDefaults on the active configs) runs on a loaded configuration only.
RunDefaulting ==
    /\ load.pc = "loaded"
    /\ ~load.defaulted
    /\ load' = [load EXCEPT !.defaulted = TRUE]
    /\ UNCHANGED <<doc, runVars, wrapVars, regVars>>

InitLoad ==
    /\ doc \in UNION {[1..n -> [field : DocFields, decl : UnmarshalerDecls]] : n \in 0..MaxDoc}
    /\ load = IdleLoad
    /\ reg = <<>>
    /\ active = <<>>
    /\ w = IdleWrapper
    /\ last = IdleCall
    /\ prev = IdleCall
    /\ ctx = "active"
    /\ pc = "idle"
    /\ legacy = "generic"
    /\ legacyErr = ErrNil
    /\ runRet = ErrNil
    /\ ctxAtRet = None
    /\ runCalls = 0
    /\ legacyCalls = 0

NextLoad ==
    \/ StartLoad
    \/ DecodeSection
    \/ FinishLoad
    \/ RunDefaulting

SpecLoad == InitLoad /\ [][NextLoad]_vars

(***************************************************************************)
(* C3: ApplyDefaults is idempotent on the instance key: a second           *)
(* ApplyDefaults under the same global context leaves the same instance    *)
(* key, and the same Identifier result, as the first.                      *)
(***************************************************************************)
C3_ApplyDefaultsIdempotent ==
    (last.op = "ApplyDefaults" /\ prev.op = "ApplyDefaults" /\ prev.g = last.g)
        => /\ last.keyAfter = prev.keyAfter
           /\ last.idAfter = prev.idAfter

C3_Witness ==
    /\ last.op = "ApplyDefaults"
    /\ prev.op = "ApplyDefaults"
    /\ prev.g = last.g
    /\ prev.keyAfter = "agent-2"
    /\ w.key = "agent-2"
    /\ w.ci = "agentKey"

(***************************************************************************)
(* C4: once the instance key is set, explicitly or by a resolution cached  *)
(* in ApplyDefaults, no ApplyDefaults, Identifier or NewIntegration call   *)
(* under any global context changes it, and Identifier returns that key.   *)
(***************************************************************************)
C4_KeyImmutable ==
    [][ /\ (w.key # None => w'.key = w.key)
        /\ (w.key # None /\ last'.op = "Identifier")
              => (last'.ret.id = w.key /\ last'.ret.err = ErrNil) ]_vars

C4_Witness ==
    /\ prev.op = "ApplyDefaults"
    /\ prev.keyAfter = "agent-1"
    /\ last.op = "ApplyDefaults"
    /\ last.before.key = "agent-1"
    /\ last.g.AgentIdentifier = "agent-2"
    /\ w.key = "agent-1"

(***************************************************************************)
(* C5: Identifier returns the cached key without calling the per-kind      *)
(* identifier function when a key is present; otherwise it returns that    *)
(* function's result for the agent-wide identifier, a failure included.    *)
(***************************************************************************)
C5_Identifier ==
    last.op = "Identifier" =>
        LET c == last.before
            f == configInstanceFunc(c.ci, last.g.AgentIdentifier)
        IN  IF c.key # None
            THEN last.ret = [id |-> c.key, err |-> ErrNil, calls |-> 0]
            ELSE /\ last.ret.calls = 1
                 /\ last.ret.id = f.id
                 /\ last.ret.err = f.err
                 /\ (c.ci = "fail" => last.ret.err # ErrNil)

C5_Witness ==
    /\ last.op = "Identifier"
    /\ last.before.key = None
    /\ last.before.ci = "failAgent1"
    /\ last.g.AgentIdentifier = "agent-1"
    /\ last.ret.err = <<ErrIdentity>>

(***************************************************************************)
(* C6: NewIntegration returns an error and no integration exactly when the *)
(* legacy constructor fails, identity resolution fails or MetricsHandler   *)
(* returns an error; otherwise no error and an integration with every      *)
(* field populated, the handler being the not-found handler when the       *)
(* legacy integration supplied none.                                       *)
(***************************************************************************)
C6_AllOrNothing ==
    last.op = "NewIntegration" =>
        LET c     == last.before
            v1    == last.v1
            r     == last.ret
            idres == configInstanceFunc(c.ci, last.g.AgentIdentifier)
            fails == \/ v1.ctorErr # ErrNil
                     \/ (c.key = None /\ idres.err # ErrNil)
                     \/ v1.handlerErr # ErrNil
        IN  /\ (r.err # ErrNil) <=> fails
            /\ (r.err # ErrNil) => r.integ = <<>>
            /\ (r.err = ErrNil) =>
                 /\ Len(r.integ) = 1
                 /\ r.integ[1].integrationName = c.name
                 /\ r.integ[1].instanceID = (IF c.key # None THEN c.key ELSE idres.id)
                 /\ r.integ[1].common = [InstanceKey |-> c.key, Enable |-> c.enable]
                 /\ r.integ[1].globals = last.g
                 /\ r.integ[1].handler # None
                 /\ r.integ[1].handler =
                        (IF v1.handler = None THEN NotFoundHandler ELSE v1.handler)
                 /\ ~r.integ[1].targets.nil
                 /\ r.integ[1].runFunc = "runFunc"

C6_Witness ==
    /\ last.op = "NewIntegration"
    /\ last.v1.handler = None
    /\ last.v1.handlerErr = ErrNil
    /\ last.v1.ctorErr = ErrNil
    /\ last.ret.err = ErrNil
    /\ Len(last.ret.integ) = 1
    /\ last.ret.integ[1].handler = NotFoundHandler

(***************************************************************************)
(* C7: NewIntegration produces one target per legacy scrape config, in the *)
(* same order with the same metrics path; the target list is never nil;    *)
(* each job label is "integrations/" followed by that scrape config's      *)
(* declared job name.                                                      *)
(***************************************************************************)
C7_TargetConversion ==
    (last.op = "NewIntegration" /\ last.ret.err = ErrNil) =>
        LET scs == last.v1.scs.elems
            ts  == last.ret.integ[1].targets
        IN  /\ ~ts.nil
            /\ Len(ts.elems) = Len(scs)
            /\ \A i \in 1..Len(scs) :
                 /\ ts.elems[i].MetricsPath = scs[i].MetricsPath
                 /\ ts.elems[i].Job = "integrations/" \o scs[i].JobName

C7_Witness ==
    /\ last.op = "NewIntegration"
    /\ last.ret.err = ErrNil
    /\ last.v1.scs.elems = << [JobName |-> "custom", MetricsPath |-> "/probe"],
                              [JobName |-> "cadvisor", MetricsPath |-> "/metrics"] >>
    /\ last.ret.integ[1].targets.elems[1].Job = "integrations/custom"
    /\ last.ret.integ[1].targets.elems[2].Job = "integrations/cadvisor"

C7_WitnessEmpty ==
    /\ last.op = "NewIntegration"
    /\ last.ret.err = ErrNil
    /\ last.v1.scs.nil
    /\ last.ret.integ[1].targets = Slice(<<>>)

(***************************************************************************)
(* C8 as stated: every target's job label is the integration's kind name   *)
(* (Name()) prefixed with "integrations/", whatever job names the legacy   *)
(* ScrapeConfigs() declares.                                               *)
(***************************************************************************)
C8_JobLabelIsKindName ==
    (last.op = "NewIntegration" /\ last.ret.err = ErrNil) =>
        LET i == last.ret.integ[1]
        IN  \A k \in 1..Len(i.targets.elems) :
                i.targets.elems[k].Job = JobPrefix \o i.integrationName

(***************************************************************************)
(* C8 amended: every target's job label is "integrations/" followed by     *)
(* the job name its legacy scrape config declares; it is the prefixed kind *)
(* name exactly when that declared job name equals the kind name.          *)
(***************************************************************************)
C8_JobLabelIsDeclaredJobName ==
    (last.op = "NewIntegration" /\ last.ret.err = ErrNil) =>
        LET i == last.ret.integ[1]
        IN  \A k \in 1..Len(i.targets.elems) :
              LET declared == last.v1.scs.elems[k].JobName
              IN  /\ i.targets.elems[k].Job = JobPrefix \o declared
                  /\ (i.targets.elems[k].Job = JobPrefix \o i.integrationName)
                        <=> (declared = i.integrationName)

C8_Witness ==
    /\ last.op = "NewIntegration"
    /\ last.ret.err = ErrNil
    /\ last.before.name = "redis_exporter"
    /\ Len(last.ret.integ[1].targets.elems) = 1
    /\ last.v1.scs.elems[1].JobName = "custom"
    /\ last.ret.integ[1].integrationName = "redis_exporter"
    /\ last.ret.integ[1].targets.elems[1].Job = "integrations/custom"

(***************************************************************************)
(* C9: ActiveConfigs returns exactly the flattened registry: in the static *)
(* kind order, a singular slot contributes one Config iff it is present, a *)
(* repeated slot one Config per declared element in declaration order, and *)
(* nothing else; the length is the number of present singular slots plus   *)
(* the repeated slots' lengths; two calls return the same kinds in the     *)
(* same order.                                                             *)
(***************************************************************************)
KindOrder == << "agent", "cadvisor", "consul_exporter", "dnsmasq_exporter",
                "elasticsearch_exporter", "github_exporter", "kafka_exporter",
                "memcached_exporter", "mongodb_exporter", "mysqld_exporter",
                "node_exporter", "postgres_exporter", "process_exporter",
                "redis_exporter", "statsd_exporter", "windows_exporter", "test" >>

KindPos(name) == CHOOSE i \in 1..Len(KindOrder) : KindOrder[i] = name

RECURSIVE DeclaredCount(_, _)
DeclaredCount(v, k) ==
    IF k = 0 THEN 0
    ELSE DeclaredCount(v, k - 1) +
         (IF Fields[k] \in SingularFields
          THEN (IF v[Fields[k]] # <<>> THEN 1 ELSE 0)
          ELSE Len(v[Fields[k]]))

C9_ActiveConfigsFlattens ==
    \A c \in 1..Len(active) :
        LET a == active[c] IN
        /\ Len(a) = DeclaredCount(reg, Len(Fields))
        /\ \A f \in FieldSet : \A i \in 1..Len(reg[f]) :
              \E k \in 1..Len(a) :
                 /\ a[k].cfg = <<f, i>>
                 /\ a[k].name = reg[f][i].name
                 /\ a[k].key = reg[f][i].key
                 /\ a[k].ci = reg[f][i].ci
        /\ \A k \in 1..Len(a) :
              /\ a[k].cfg[1] \in FieldSet
              /\ a[k].cfg[2] \in 1..Len(reg[a[k].cfg[1]])
              /\ a[k].name = KindName(a[k].cfg[1])
        /\ \A k \in 1..Len(a) : \A l \in 1..Len(a) :
              k < l => \/ KindPos(a[k].name) < KindPos(a[l].name)
                       \/ /\ a[k].cfg[1] = a[l].cfg[1]
                          /\ a[k].cfg[1] \notin SingularFields
                          /\ a[k].cfg[2] < a[l].cfg[2]
        /\ \A d \in 1..Len(active) :
              [k \in 1..Len(a) |-> a[k].name] = [k \in 1..Len(active[d]) |-> active[d][k].name]

C9_Witness ==
    /\ Len(active) = 2
    /\ reg["Agent"] # <<>>
    /\ Len(reg["RedisExporterConfigs"]) = 2
    /\ reg["RedisExporterConfigs"][1].key = "k1"
    /\ reg["RedisExporterConfigs"][2].key = None
    /\ Len(active[2]) = 3
    /\ active[2][1].cfg = <<"Agent", 1>>
    /\ active[2][2].key = "k1"
    /\ active[2][3].cfg = <<"RedisExporterConfigs", 2>>

(***************************************************************************)
(* C10.  The configurations it is about: one wrapped singular slot filled, *)
(* one wrapped repeated slot holding two entries, every other slot empty.  *)
(* Identity resolution of a Config under a global context is ApplyDefaults *)
(* followed by Identifier.                                                 *)
(***************************************************************************)
WrappedFields == FieldSet \ {"Agent", "TestConfigs"}

OneSingularOneRepeatedOfTwo(v) ==
    \E fs \in WrappedFields \cap SingularFields : \E fr \in WrappedFields \ SingularFields :
        /\ Len(v[fs]) = 1
        /\ Len(v[fr]) = 2
        /\ \A f \in FieldSet \ {fs, fr} : v[f] = <<>>

ResolvedId(item, g) ==
    LET r == Identifier(ApplyDefaults(item, g), g) IN [id |-> r.id, err |-> r.err]

\* What the declared entry itself determines: its explicit key, else its per-kind function.
EntryId(e, g) ==
    IF e.key # None THEN [id |-> e.key, err |-> ErrNil]
    ELSE configInstanceFunc(e.ci, g.AgentIdentifier)

InKindOrder(a) ==
    \A k \in 1..Len(a) : \A l \in 1..Len(a) :
        k < l => KindPos(a[k].name) <= KindPos(a[l].name)

(***************************************************************************)
(* C10 as stated: for such a configuration ActiveConfigs returns exactly   *)
(* three Configs in kind-priority order, and after identity resolution no  *)
(* two of them carry the same (kind name, identifier) pair.                *)
(***************************************************************************)
C10_PairsUnique ==
    OneSingularOneRepeatedOfTwo(reg) =>
        \A c \in 1..Len(active) :
            LET a == active[c] IN
            /\ Len(a) = 3
            /\ InKindOrder(a)
            /\ \A g \in GlobalsSet : \A k \in 1..Len(a) : \A l \in 1..Len(a) :
                  k < l => ~( /\ a[k].name = a[l].name
                              /\ ResolvedId(a[k], g) = ResolvedId(a[l], g) )

(***************************************************************************)
(* C10 amended: for such a configuration ActiveConfigs returns exactly     *)
(* three Configs in kind-priority order; after identity resolution each    *)
(* carries its entry's explicit instance key if it has one and otherwise   *)
(* its per-kind function's result, so two of them carry the same (kind     *)
(* name, identifier) pair exactly when they are the two entries of the     *)
(* repeated slot and those values coincide.                                *)
(***************************************************************************)
C10_PairsFollowEntries ==
    OneSingularOneRepeatedOfTwo(reg) =>
        \A c \in 1..Len(active) :
            LET a == active[c]
                e(k) == reg[a[k].cfg[1]][a[k].cfg[2]]
            IN
            /\ Len(a) = 3
            /\ InKindOrder(a)
            /\ \A g \in GlobalsSet :
                 /\ \A k \in 1..Len(a) : ResolvedId(a[k], g) = EntryId(e(k), g)
                 /\ \A k \in 1..Len(a) : \A l \in 1..Len(a) :
                      k < l =>
                        ( ( /\ a[k].name = a[l].name
                            /\ ResolvedId(a[k], g) = ResolvedId(a[l], g) )
                          <=> ( /\ a[k].cfg[1] = a[l].cfg[1]
                                /\ EntryId(e(k), g) = EntryId(e(l), g) ) )

C10_Witness ==
    /\ OneSingularOneRepeatedOfTwo(reg)
    /\ Len(reg["NodeExporter"]) = 1
    /\ Len(reg["RedisExporterConfigs"]) = 2
    /\ reg["RedisExporterConfigs"][1].key = None
    /\ reg["RedisExporterConfigs"][2].key = None
    /\ Len(active) = 1
    /\ Len(active[1]) = 3
    /\ active[1][1].name = "node_exporter"
    /\ \A g \in GlobalsSet :
          /\ ResolvedId(active[1][2], g).id = "addr1"
          /\ ResolvedId(active[1][3], g).id = "addr1"

(***************************************************************************)
(* C11: when the legacy config type a wrapper type wraps defines its own   *)
(* custom deserialization rule, the wrapper's UnmarshalYAML returns an     *)
(* error naming the type without invoking the decode step, the load fails  *)
(* as a whole and no defaulting runs; when the type defines no such rule   *)
(* the guard reports no error and decoding proceeds.                       *)
(***************************************************************************)
C11_GuardRejectsCustomUnmarshaler ==
    \A i \in 1..Len(load.done) :
        LET r == load.done[i] IN
        IF doc[i].decl # "none"
        THEN /\ r.err = <<ErrCustomUnmarshaler, KindName(doc[i].field)>>
             /\ ~r.decoded
             /\ load.pc = "failed"
             /\ ~load.defaulted
        ELSE /\ r.guardErr = ErrNil
             /\ r.decoded

\* The part of C11 the code does satisfy: a rule declared with a value receiver, and no
\* rule at all.
C11_ValueReceiverRejected ==
    \A i \in 1..Len(load.done) :
        LET r == load.done[i] IN
        /\ doc[i].decl = "value" =>
              /\ r.err = <<ErrCustomUnmarshaler, KindName(doc[i].field)>>
              /\ ~r.decoded
              /\ load.pc = "failed"
              /\ ~load.defaulted
        /\ doc[i].decl = "none" => (r.guardErr = ErrNil /\ r.decoded)

\* A load that went through although a wrapped type declares UnmarshalYAML.
C11_PointerReceiverLoaded ==
    /\ Len(doc) = 1
    /\ doc[1] = [field |-> "Cadvisor", decl |-> "pointer"]
    /\ load.pc = "loaded"
    /\ load.defaulted
    /\ load.done[1].decoded

(***************************************************************************)
(* C12: the non-Windows windows_exporter stub's Run never returns while    *)
(* its context is active and, once the context is done, eventually         *)
(* returns; so the wrapped Run returns only after the context is done and  *)
(* does eventually return, and the legacy Run is invoked exactly once per  *)
(* Run call.                                                               *)
(***************************************************************************)
C12_StubBlocksUntilDone ==
    /\ [][ (legacy = "stub" /\ pc = "running" /\ pc' = "done")
             => (ctx # "active" /\ ctxAtRet' = ctx /\ ctxAtRet' # "active") ]_vars
    /\ [] ( (legacy = "stub" /\ pc = "done") => ctxAtRet \in {"canceled", "expired"} )
    /\ ( (legacy = "stub" /\ pc = "running" /\ ctx # "active") ~> (pc = "done") )
    /\ [] ( legacyCalls = runCalls )

C12_Witness ==
    /\ legacy = "stub"
    /\ pc = "done"
    /\ ctxAtRet = "canceled"
    /\ runCalls = 1
    /\ legacyCalls = 1

C14_WrappersOwnTheirSettings ==
    [][ /\ reg' = reg
        /\ Len(active') >= Len(active)
        /\ \A c \in 1..Len(active) : \A k \in 1..Len(active[c]) :
              active'[c][k] # active[c][k] =>
                 \A c2 \in 1..Len(active) : \A k2 \in 1..Len(active[c2]) :
                    <<c2, k2>> # <<c, k>> => active'[c2][k2] = active[c2][k2]
        /\ Len(active') > Len(active) =>
              \A k \in 1..Len(active'[Len(active')]) :
                 LET it == active'[Len(active')][k]
                     e  == reg[it.cfg[1]][it.cfg[2]]
                 IN  it.wrapped => (it.key = e.key /\ it.enable = e.enable)
      ]_vars

\* An earlier wrapper of a keyless slot resolved its key; the wrapper a later call built
\* for the same slot has none.
C14_Witness ==
    /\ Len(active) = 2
    /\ \E k \in 1..Len(active[1]) :
          /\ active[1][k].wrapped
          /\ active[1][k].key = "addr1"
          /\ active[2][k].cfg = active[1][k].cfg
          /\ active[2][k].key = None
          /\ reg[active[1][k].cfg[1]][active[1][k].cfg[2]].key = None

(***************************************************************************)
(* C13: ApplyDefaults never reports an identity failure.  With no instance *)
(* key and a failing per-kind identifier function it returns nil and the   *)
(* key stays absent; with a succeeding function it sets the key.  On a     *)
(* wrapper without a key the per-kind function is invoked again by every   *)
(* later Identifier call and by every later NewIntegration call.           *)
(***************************************************************************)
C13_ApplyDefaultsPart ==
    last.op = "ApplyDefaults" =>
        LET idres == configInstanceFunc(last.before.ci, last.g.AgentIdentifier) IN
        /\ last.ret = ErrNil
        /\ (last.before.key = None /\ idres.err # ErrNil) =>
              (last.keyAfter = None /\ w.key = None /\ last.idAfter.err = idres.err)
        /\ (last.before.key = None /\ idres.err = ErrNil) =>
              (last.keyAfter = idres.id /\ w.key = idres.id)

C13_IdentifierPart ==
    (last.op = "Identifier" /\ last.before.key = None) =>
        /\ last.ret.calls = 1
        /\ last.ret.err = configInstanceFunc(last.before.ci, last.g.AgentIdentifier).err

\* As stated: every NewIntegration call on a keyless wrapper invokes the function.
C13_EveryCallResolvesAgain ==
    /\ C13_ApplyDefaultsPart
    /\ C13_IdentifierPart
    /\ (last.op = "NewIntegration" /\ last.before.key = None) => last.ret.calls = 1

\* Amended: a NewIntegration call whose legacy constructor fails returns that error
\* before the identifier is asked for; every other one invokes the function.
C13_ResolvesAgainAfterConstructor ==
    /\ C13_ApplyDefaultsPart
    /\ C13_IdentifierPart
    /\ (last.op = "NewIntegration" /\ last.before.key = None) =>
          /\ last.v1.ctorErr = ErrNil =>
                /\ last.ret.calls = 1
                /\ (configInstanceFunc(last.before.ci, last.g.AgentIdentifier).err # ErrNil
                      => last.ret.err =
                           configInstanceFunc(last.before.ci, last.g.AgentIdentifier).err)
          /\ last.v1.ctorErr # ErrNil =>
                (last.ret.calls = 0 /\ last.ret.err = last.v1.ctorErr)

\* ApplyDefaults left the key absent, and the NewIntegration call after it reports the
\* identity failure.
C13_Witness ==
    /\ prev.op = "ApplyDefaults"
    /\ prev.keyAfter = None
    /\ last.op = "NewIntegration"
    /\ last.before.key = None
    /\ last.v1.ctorErr = ErrNil
    /\ last.ret.calls = 1
    /\ last.ret.err = <<ErrIdentity>>

\* After a failed resolution, ApplyDefaults under another agent identifier sets the key.
C13_WitnessLaterApplyDefaults ==
    /\ prev.op = "ApplyDefaults"
    /\ prev.keyAfter = None
    /\ last.op = "ApplyDefaults"
    /\ last.before.key = None
    /\ last.keyAfter = "addr1"
    /\ w.key = "addr1"

====
